---------------------------- MODULE Spec2Model ----------------------------
(***************************************************************************)
(* Laser workshop backend: the order / shift entity store, the workflow    *)
(* rules of Order.save and ShiftViewSet._close_shift, the access policy of *)
(* orders/permissions.py and the post_save / post_delete broadcasts of     *)
(* orders/signals.py.                                                      *)
(*                                                                         *)
(* Every request handler is one action.  A handler is computed on a "db"   *)
(* record (the two tables, the log of what the request wrote and sent, and *)
(* the exception that ended it, if any): a Python exception is the field   *)
(* raised, and every later statement of the handler is skipped once it is  *)
(* set.  Each statement that writes a row commits on its own (autocommit:  *)
(* no handler of the repository opens a transaction).                      *)
(***************************************************************************)
EXTENDS Integers, Sequences, FiniteSets, TLC

\* ------------------------------------------------------------------ bounds
MaxOrders == 2          \* orders ever created, specification Spec
MaxWorkflowOrders == 1  \* orders ever created, specification SpecOrder
MaxShifts == 2          \* shifts ever created
MaxTime == 2            \* the clock runs 1..MaxTime
MaxConns == 2           \* live-update connections
MaxRequests == 2        \* requests handled one store statement at a time

\* --------------------------------------------------------------- constants
NULL == -1         \* Python None / SQL NULL in an integer column
ABSENT == -2       \* a key that the request body does not carry
NoUser == "null"   \* NULL in a user foreign key
Missing == "absent" \* a string key that the request body does not carry
NoStatus == "None" \* validated_data.get('status') when the key is missing

Managers == {"m1"}
Workers == {"w1"}
Users == Managers \cup Workers
\* User.role
role(u) == IF u \in Managers THEN "MANAGER" ELSE IF u \in Workers THEN "WORKER" ELSE "none"

STATUS_CHOICES ==
    {"UNDER_WORK", "DESIGNING", "DESIGN_COMPLETED", "DONE_CUTTING", "DELIVERED"}
\* the statuses requests are drawn from: the workflow treats every status
\* other than DELIVERED alike
StatusInputs == {"UNDER_WORK", "DONE_CUTTING", "DELIVERED"}
Names == {"a", "b"}
Phones == {"010", "011"}
Prices == {NULL, 0, 10, 20}

VARIABLES
    orders,       \* table Order: id -> row, for the ids that exist
    nextOrderId,  \* the AutoField sequence of Order
    shifts,       \* table Shift: a sequence, the id is the index
    now,          \* timezone.now()
    resp,         \* the last request and its response
    events,       \* what the last request wrote to the store and sent to the group
    group,        \* the channel layer's group 'orders': channel names
    conns,        \* the live-update connections: channel name -> consumer
    reqs          \* the requests handled one store statement at a time

vars == <<orders, nextOrderId, shifts, now, resp, events, group, conns, reqs>>

\* ------------------------------------------------------------ the db record
Db(o, s) ==
    [orders |-> o, shifts |-> s, events |-> <<>>, raised |-> "none", errors |-> {}]

ActiveIds(s) == {i \in 1..Len(s) : s[i].is_active}

WriteEvent(type, action, id, data, s) ==
    [kind |-> "write", type |-> type, action |-> action, id |-> id,
     data |-> data, active |-> ActiveIds(s)]

SendEvent(type, action, id, data, s) ==
    [kind |-> "send", type |-> type, action |-> action, id |-> id,
     data |-> data, active |-> ActiveIds(s)]

Raise(db, exc) == [db EXCEPT !.raised = exc]

\* an exception whose detail is a map from field names to messages
RaiseFields(db, exc, fields) == [db EXCEPT !.raised = exc, !.errors = fields]


\* ------------------------------------------------------------- serializers
RECURSIVE SumPrice(_, _)
SumPrice(o, S) ==
    IF S = {} THEN 0
    ELSE LET i == CHOOSE x \in S : TRUE
         IN (IF o[i].price = NULL THEN 0 ELSE o[i].price) + SumPrice(o, S \ {i})

\* Order.objects.filter(status='DELIVERED', delivered_at__gte=opened_at)
DeliveredSince(o, opened_at) ==
    {i \in DOMAIN o : o[i].status = "DELIVERED"
                      /\ o[i].delivered_at # NULL
                      /\ o[i].delivered_at >= opened_at}

\* get_total_orders_delivered without its first branch: the stored field
\* also for an active shift
get_total_orders_delivered_stored(o, sh) == sh.total_orders_delivered

get_total_orders_delivered(o, sh) ==
    IF sh.is_active THEN Cardinality(DeliveredSince(o, sh.opened_at))
    ELSE sh.total_orders_delivered

\* get_total_revenue without its second branch: computed from the orders
\* also for a closed shift
get_total_revenue_always_computed(o, sh) ==
    SumPrice(o, DeliveredSince(o, sh.opened_at))

get_total_revenue(o, sh) ==
    IF sh.is_active THEN SumPrice(o, DeliveredSince(o, sh.opened_at))
    ELSE sh.total_revenue

ShiftSerializer(o, id, sh) ==
    [id |-> id, opened_at |-> sh.opened_at, closed_at |-> sh.closed_at,
     is_active |-> sh.is_active,
     total_orders_delivered |-> get_total_orders_delivered(o, sh),
     total_revenue |-> get_total_revenue(o, sh),
     opened_by |-> sh.opened_by, closed_by |-> sh.closed_by]

OrderSerializer(id, row) ==
    [id |-> id, customer_name |-> row.customer_name,
     customer_phone |-> row.customer_phone, created_by |-> row.created_by,
     price |-> row.price,
     status |-> row.status, delivered_at |-> row.delivered_at]

\* ------------------------------------------------------------------ signals
\* async_to_sync(channel_layer.group_send)('orders', ...): no try/except
\* around it, so an unreachable channel layer raises into the caller.
group_send(db, type, action, id, data, fault) ==
    IF db.raised # "none" THEN db
    ELSE IF fault = "send_error" THEN Raise(db, "ChannelLayerError")
    ELSE [db EXCEPT !.events =
              Append(@, SendEvent(type, action, id, data, db.shifts))]

order_saved(db, id, created, fault) ==
    group_send(db, "order", IF created THEN "created" ELSE "updated", id,
               OrderSerializer(id, db.orders[id]), fault)

\* order_deleted sending the serialised instance, as order_saved does
order_deleted_serialized(db, id, instance, fault) ==
    group_send(db, "order", "deleted", id, OrderSerializer(id, instance), fault)

order_deleted(db, id, instance, fault) ==
    group_send(db, "order", "deleted", id, [id |-> id], fault)

shift_saved(db, id, created, fault) ==
    group_send(db, "shift", IF created THEN "created" ELSE "updated", id,
               ShiftSerializer(db.orders, id, db.shifts[id]), fault)

\* ------------------------------------------------------------- Order model
Truthy(price) == price # NULL /\ price # 0

\* Order.clean testing "price is None" in place of "not price": a zero price
\* passes
clean_price_is_none(row) == ~(row.status = "DELIVERED" /\ row.price = NULL)

\* Order.clean: TRUE when it raises nothing
clean(row) == ~(row.status = "DELIVERED" /\ ~Truthy(row.price))

\* Model.full_clean: clean_fields (status is a non-null choice) and clean,
\* their errors collected by field
full_clean_errors(row) ==
    {k \in {"status"} : row.status \notin STATUS_CHOICES}
    \cup {k \in {"price"} : ~clean(row)}

full_clean(row) == full_clean_errors(row) = {}

\* set_delivered_at without its second rule: delivered_at survives a status
\* change away from DELIVERED
set_delivered_at_never_reset(row, t) ==
    IF row.status = "DELIVERED" /\ row.delivered_at = NULL
    THEN [row EXCEPT !.delivered_at = t] ELSE row

\* set_delivered_at without its first rule: save never stamps delivered_at
set_delivered_at_never_set(row, t) ==
    IF row.status # "DELIVERED" /\ row.delivered_at # NULL
    THEN [row EXCEPT !.delivered_at = NULL] ELSE row

\* Order.save, the two rules on delivered_at
set_delivered_at(row, t) ==
    LET r1 == IF row.status = "DELIVERED" /\ row.delivered_at = NULL
              THEN [row EXCEPT !.delivered_at = t] ELSE row
    IN IF r1.status # "DELIVERED" /\ r1.delivered_at # NULL
       THEN [r1 EXCEPT !.delivered_at = NULL] ELSE r1

PutOrder(o, id, row) ==
    [i \in DOMAIN o \cup {id} |-> IF i = id THEN row ELSE o[i]]

\* Order.save publishing its notification first, before full_clean and the
\* write (a pre_save receiver in place of post_save)
Order_save_send_first(db, id, row, created, t, fault) ==
    IF db.raised # "none" THEN db
    ELSE LET r == set_delivered_at(row, t)
             db1 == group_send(db, "order",
                               IF created THEN "created" ELSE "updated", id,
                               OrderSerializer(id, r), fault)
         IN IF db1.raised # "none" THEN db1
            ELSE IF ~full_clean(r)
                 THEN RaiseFields(db1, "django.ValidationError", full_clean_errors(r))
            ELSE [db1 EXCEPT !.orders = PutOrder(db.orders, id, r),
                     !.events = Append(@, WriteEvent("order",
                         IF created THEN "created" ELSE "updated",
                         id, r, db.shifts))]

\* Order.save: full_clean, then the row is written, then post_save
Order_save(db, id, row, created, t, fault) ==
    IF db.raised # "none" THEN db
    ELSE LET r == set_delivered_at(row, t)
         IN IF ~full_clean(r)
            THEN RaiseFields(db, "django.ValidationError", full_clean_errors(r))
            ELSE LET o2 == PutOrder(db.orders, id, r)
                     db2 == [db EXCEPT !.orders = o2,
                                !.events = Append(@, WriteEvent("order",
                                    IF created THEN "created" ELSE "updated",
                                    id, r, db.shifts))]
                 IN order_saved(db2, id, created, fault)

\* Model.delete and post_delete
Order_delete(db, id, fault) ==
    IF db.raised # "none" THEN db
    ELSE LET o2 == [i \in DOMAIN db.orders \ {id} |-> db.orders[i]]
             db2 == [db EXCEPT !.orders = o2,
                        !.events = Append(@, WriteEvent("order", "deleted",
                                              id, [id |-> id], db.shifts))]
         IN order_deleted(db2, id, db.orders[id], fault)

\* -------------------------------------------------------------- permissions
SAFE_METHODS == {"GET", "HEAD", "OPTIONS"}

\* IsManager without the test on the role
IsManager_any_role(u) == u \in Users

IsManager(u) == u \in Users /\ role(u) = "MANAGER"

CanUpdateOrder_has_permission(u) ==
    u \in Users /\ role(u) \in {"MANAGER", "WORKER"}

CanUpdateOrder_has_object_permission(method, u, keys) ==
    IF method \in SAFE_METHODS THEN TRUE
    ELSE IF role(u) = "MANAGER" THEN TRUE
    ELSE IF role(u) = "WORKER" /\ method \in {"PATCH", "PUT"}
         THEN keys \subseteq {"status"}
    ELSE FALSE

CanDeleteOrder_has_permission(method, u) ==
    IF method = "DELETE" THEN IsManager(u) ELSE TRUE

\* OrderViewSet.permission_classes as APIView.check_permissions runs them
OrderViewSet_check_permissions(method, u) ==
    /\ u \in Users
    /\ CanUpdateOrder_has_permission(u)
    /\ CanDeleteOrder_has_permission(method, u)

\* ... and as get_object runs them (check_object_permissions)
OrderViewSet_check_object_permissions(method, u, keys) ==
    /\ CanUpdateOrder_has_object_permission(method, u, keys)
    /\ CanDeleteOrder_has_permission(method, u)

\* ------------------------------------------------------------ request data
Payloads ==
    [customer_name : Names \cup {Missing},
     customer_phone : Phones \cup {Missing},
     price : Prices \cup {ABSENT},
     status : StatusInputs \cup {Missing}]

\* request.data.keys()
Keys(data) ==
    {k \in {"customer_name"} : data.customer_name # Missing}
    \cup {k \in {"customer_phone"} : data.customer_phone # Missing}
    \cup {k \in {"price"} : data.price # ABSENT}
    \cup {k \in {"status"} : data.status # Missing}

\* ------------------------------------------------------------ ShiftViewSet
\* the filter of _close_shift without delivered_at__gte: every order delivered
\* up to closed_at
delivered_orders_no_lower_bound(o, opened_at, closed_at) ==
    {i \in DOMAIN o : o[i].status = "DELIVERED"
                      /\ o[i].delivered_at # NULL
                      /\ o[i].delivered_at <= closed_at}

\* Order.objects.filter(status='DELIVERED', delivered_at__gte=..., delivered_at__lte=...)
delivered_orders(o, opened_at, closed_at) ==
    {i \in DOMAIN o : o[i].status = "DELIVERED"
                      /\ o[i].delivered_at # NULL
                      /\ o[i].delivered_at >= opened_at
                      /\ o[i].delivered_at <= closed_at}

\* delivered_orders.update(delivered_in_shift=shift): one UPDATE, no signal
RECURSIVE BulkEvents(_, _, _)
BulkEvents(S, sid, s) ==
    IF S = {} THEN <<>>
    ELSE LET i == CHOOSE x \in S : \A y \in S : x <= y
         IN <<WriteEvent("order", "updated", i, [delivered_in_shift |-> sid], s)>>
            \o BulkEvents(S \ {i}, sid, s)

link_orders(db, S, sid) ==
    [db EXCEPT
       !.orders = [i \in DOMAIN db.orders |->
                     IF i \in S THEN [db.orders[i] EXCEPT !.delivered_in_shift = sid]
                     ELSE db.orders[i]],
       !.events = @ \o BulkEvents(S, sid, db.shifts)]

\* the statistics _close_shift stores: the count and Sum('price') or 0
close_stats(o, S) ==
    [total_orders_delivered |-> Cardinality(S), total_revenue |-> SumPrice(o, S)]

\* Shift.save (Model.save: no full_clean) and post_save
Shift_save(db, sid, row, created, fault) ==
    IF db.raised # "none" THEN db
    ELSE IF fault = "save_error" THEN Raise(db, "DatabaseError")
    ELSE LET s2 == IF created THEN Append(db.shifts, row)
                   ELSE [db.shifts EXCEPT ![sid] = row]
             db2 == [db EXCEPT !.shifts = s2,
                        !.events = Append(@, WriteEvent("shift",
                            IF created THEN "created" ELSE "updated", sid, row, s2))]
         IN shift_saved(db2, sid, created, fault)

_close_shift(db, sid, user, t, fault) ==
    IF db.raised # "none" THEN db
    ELSE LET sh == db.shifts[sid]
             s1 == [sh EXCEPT !.closed_at = t, !.closed_by = user, !.is_active = FALSE]
             S == delivered_orders(db.orders, s1.opened_at, s1.closed_at)
             st == close_stats(db.orders, S)
             s2 == [s1 EXCEPT !.total_orders_delivered = st.total_orders_delivered,
                              !.total_revenue = st.total_revenue]
         IN Shift_save(link_orders(db, S, sid), sid, s2, FALSE, fault)

\* for shift in Shift.objects.filter(is_active=True): newest first (Meta.ordering)
RECURSIVE close_active(_, _, _, _, _)
close_active(db, S, user, t, fault) ==
    IF S = {} THEN db
    ELSE LET i == CHOOSE x \in S : \A y \in S : x >= y
         IN close_active(_close_shift(db, i, user, t, fault), S \ {i}, user, t, fault)

NewShift(user, t) ==
    [opened_at |-> t, closed_at |-> NULL, opened_by |-> user, closed_by |-> NoUser,
     is_active |-> TRUE, total_orders_delivered |-> 0, total_revenue |-> 0]

\* Shift.objects.create(...) of open_new: an INSERT, which the store fault
\* of _close_shift's save does not concern
create_shift(db, user, t, fault) ==
    Shift_save(db, Len(db.shifts) + 1, NewShift(user, t), TRUE,
               IF fault = "save_error" THEN "none" ELSE fault)

\* open_new creating the new shift before it closes the shifts that were
\* active
open_new_create_first(db, user, t, fault) ==
    IF ~IsManager(user) THEN Raise(db, "rest.PermissionDenied")
    ELSE close_active(create_shift(db, user, t, fault), ActiveIds(db.shifts),
                      user, t, fault)

\* open_new without the loop that closes the active shifts
open_new_without_close(db, user, t, fault) ==
    IF ~IsManager(user) THEN Raise(db, "rest.PermissionDenied")
    ELSE create_shift(db, user, t, fault)

open_new(db, user, t, fault) ==
    IF ~IsManager(user) THEN Raise(db, "rest.PermissionDenied")
    ELSE create_shift(close_active(db, ActiveIds(db.shifts), user, t, fault),
                      user, t, fault)

\* close as a toggle: the close of a closed shift makes it active again
close_toggle(db, user, sid, t, fault) ==
    IF ~IsManager(user) THEN Raise(db, "rest.PermissionDenied")
    ELSE IF sid \notin 1..Len(db.shifts) THEN Raise(db, "rest.NotFound")
    ELSE IF ~db.shifts[sid].is_active
         THEN Shift_save(db, sid, [db.shifts[sid] EXCEPT !.is_active = TRUE],
                         FALSE, fault)
    ELSE _close_shift(db, sid, user, t, fault)

\* close without the test on is_active: a closed shift is closed again
close_without_check(db, user, sid, t, fault) ==
    IF ~IsManager(user) THEN Raise(db, "rest.PermissionDenied")
    ELSE IF sid \notin 1..Len(db.shifts) THEN Raise(db, "rest.NotFound")
    ELSE _close_shift(db, sid, user, t, fault)

close(db, user, sid, t, fault) ==
    IF ~IsManager(user) THEN Raise(db, "rest.PermissionDenied")
    ELSE IF sid \notin 1..Len(db.shifts) THEN Raise(db, "rest.NotFound")
    ELSE IF ~db.shifts[sid].is_active THEN Raise(db, "rest.ValidationError")
    ELSE _close_shift(db, sid, user, t, fault)

\* request bodies of POST /shifts/: the writable fields of ShiftSerializer
ShiftBodies == [is_active : {"true", "false", Missing}, closed_at : {ABSENT, 1}]

\* ShiftViewSet.create (CreateModelMixin, http_method_names has 'post') with
\* ShiftSerializer: is_active and closed_at are writable, opened_by is
\* read-only and nothing sets it
shift_create(db, user, data, t, fault) ==
    IF ~IsManager(user) THEN Raise(db, "rest.PermissionDenied")
    ELSE Shift_save(db, Len(db.shifts) + 1,
            [NewShift(NoUser, t) EXCEPT
                !.is_active = (data.is_active # "false"),
                !.closed_at = IF data.closed_at = ABSENT THEN NULL ELSE data.closed_at],
            TRUE, fault)

\* Shift.objects.filter(is_active=True).first(): the newest (Meta.ordering)
first_active(s) == CHOOSE x \in ActiveIds(s) : \A y \in ActiveIds(s) : x >= y

\* ShiftViewSet.current: permission_classes=[IsAuthenticated]
current(db, user) ==
    IF user \notin Users THEN Raise(db, "rest.NotAuthenticated")
    ELSE IF ActiveIds(db.shifts) = {} THEN Raise(db, "rest.NotFound")
    ELSE db

\* ShiftViewSet.delivered_orders: the orders of the response, both branches a
\* filter on the orders as they are stored now
ShiftViewSet_delivered_orders(o, sh) ==
    IF sh.is_active THEN DeliveredSince(o, sh.opened_at)
    ELSE delivered_orders(o, sh.opened_at, sh.closed_at)

\* ShiftViewSet.retrieve
retrieve(db, user, sid) ==
    IF ~IsManager(user) THEN Raise(db, "rest.PermissionDenied")
    ELSE IF sid \notin 1..Len(db.shifts) THEN Raise(db, "rest.NotFound")
    ELSE db

\* ------------------------------------------------------------ OrderViewSet
\* the required fields (no blank, no default) that the body does not carry
required_missing(data) ==
    {k \in {"customer_name"} : data.customer_name = Missing}
    \cup {k \in {"customer_phone"} : data.customer_phone = Missing}

\* CreateModelMixin.create with OrderCreateSerializer and perform_create
create(db, user, id, data, t, fault) ==
    IF ~OrderViewSet_check_permissions("POST", user)
    THEN Raise(db, "rest.PermissionDenied")
    ELSE IF required_missing(data) # {}
    THEN RaiseFields(db, "rest.ValidationError", required_missing(data))
    ELSE Order_save(db, id,
            [customer_name |-> data.customer_name,
             customer_phone |-> data.customer_phone,
             created_by |-> user,
             price |-> IF data.price = ABSENT THEN NULL ELSE data.price,
             status |-> IF data.status = Missing THEN "UNDER_WORK" ELSE data.status,
             delivered_at |-> NULL, delivered_in_shift |-> NULL],
            TRUE, t, fault)

\* OrderSerializer.validate: TRUE when it raises nothing
OrderSerializer_validate(inst, data) ==
    LET status == IF data.status # Missing THEN data.status ELSE inst.status
        price == IF data.price # ABSENT THEN data.price ELSE inst.price
    IN ~(status = "DELIVERED" /\ ~Truthy(price))

\* ModelSerializer.update: setattr for every validated attribute
apply_attrs(inst, data) ==
    [inst EXCEPT
       !.customer_name = IF data.customer_name # Missing THEN data.customer_name ELSE @,
       !.customer_phone = IF data.customer_phone # Missing THEN data.customer_phone ELSE @,
       !.price = IF data.price # ABSENT THEN data.price ELSE @,
       !.status = IF data.status # Missing THEN data.status ELSE @]

\* UpdateModelMixin.update (PUT) and partial_update (PATCH) with OrderSerializer
update(db, method, user, id, data, t, fault) ==
    IF ~OrderViewSet_check_permissions(method, user)
    THEN Raise(db, "rest.PermissionDenied")
    ELSE IF id \notin DOMAIN db.orders THEN Raise(db, "rest.NotFound")
    ELSE IF ~OrderViewSet_check_object_permissions(method, user, Keys(data))
    THEN Raise(db, "rest.PermissionDenied")
    ELSE IF method = "PUT" /\ required_missing(data) # {}
    THEN RaiseFields(db, "rest.ValidationError", required_missing(data))
    ELSE IF ~OrderSerializer_validate(db.orders[id], data)
    THEN RaiseFields(db, "rest.ValidationError", {"price"})
    ELSE Order_save(db, id, apply_attrs(db.orders[id], data), FALSE, t, fault)

\* OrderUpdateStatusSerializer.update without the test on the instance's
\* status: every update to DELIVERED stamps delivered_at
OrderUpdateStatusSerializer_update_always_stamp(inst, data, t) ==
    LET new_status == IF data.status # Missing THEN data.status ELSE NoStatus
        i1 == IF new_status = "DELIVERED"
              THEN [inst EXCEPT !.delivered_at = t] ELSE inst
    IN [i1 EXCEPT !.status = new_status]

\* OrderUpdateStatusSerializer.update
OrderUpdateStatusSerializer_update(inst, data, t) ==
    LET new_status == IF data.status # Missing THEN data.status ELSE NoStatus
        i1 == IF new_status = "DELIVERED" /\ inst.status # "DELIVERED"
              THEN [inst EXCEPT !.delivered_at = t] ELSE inst
    IN [i1 EXCEPT !.status = new_status]

\* update_status saving through OrderSerializer in place of
\* OrderUpdateStatusSerializer: every field of the body is written
update_status_every_field(db, user, id, data, t, fault) ==
    IF user \notin Users THEN Raise(db, "rest.NotAuthenticated")
    ELSE IF id \notin DOMAIN db.orders THEN Raise(db, "rest.NotFound")
    ELSE Order_save(db, id, apply_attrs(db.orders[id], data), FALSE, t, fault)

\* OrderViewSet.update_status: permission_classes=[IsAuthenticated] replaces the
\* class's, so neither CanUpdateOrder nor CanDeleteOrder runs
update_status(db, user, id, data, t, fault) ==
    IF user \notin Users THEN Raise(db, "rest.NotAuthenticated")
    ELSE IF id \notin DOMAIN db.orders THEN Raise(db, "rest.NotFound")
    ELSE Order_save(db, id, OrderUpdateStatusSerializer_update(db.orders[id], data, t),
                    FALSE, t, fault)

\* OrderViewSet.track, permission_classes=[AllowAny]: the dict of the response
track(id, row) ==
    [id |-> id, status |-> row.status, customer_name |-> row.customer_name,
     delivered_at |-> row.delivered_at]

\* OrderShowcaseSerializer with customer_phone among its fields
OrderShowcaseSerializer_with_phone(id, row) ==
    [id |-> id, customer_name |-> row.customer_name,
     delivered_at |-> row.delivered_at, customer_phone |-> row.customer_phone]

OrderShowcaseSerializer(id, row) ==
    [id |-> id, customer_name |-> row.customer_name,
     delivered_at |-> row.delivered_at]

\* ShowcaseListView: Order.objects.filter(status='DELIVERED')
\* .order_by('-delivered_at'); rows of one delivered_at come in any order
ShowcaseListings(o) ==
    LET D == {i \in DOMAIN o : o[i].status = "DELIVERED"}
        n == Cardinality(D)
    IN {[k \in 1..n |-> OrderShowcaseSerializer(q[k], o[q[k]])] :
           q \in {p \in [1..n -> D] :
                     /\ \A j, k \in 1..n : j # k => p[j] # p[k]
                     /\ \A k \in 1..(n - 1) :
                           o[p[k]].delivered_at >= o[p[k + 1]].delivered_at}}

\* DestroyModelMixin.destroy
destroy(db, user, id, fault) ==
    IF ~OrderViewSet_check_permissions("DELETE", user)
    THEN Raise(db, "rest.PermissionDenied")
    ELSE IF id \notin DOMAIN db.orders THEN Raise(db, "rest.NotFound")
    ELSE IF ~OrderViewSet_check_object_permissions("DELETE", user, {})
    THEN Raise(db, "rest.PermissionDenied")
    ELSE Order_delete(db, id, fault)

\* ------------------------------------------------ live-update connections
\* orders/middleware.py and orders/consumers.py.  A consumer handles one
\* message at a time: connect runs from the handshake to the confirmation
\* (its awaits are the steps joined, accepted, open), and a group message
\* waits in the channel's queue (inbox) until the consumer is between handlers.
ConnIds == 1..MaxConns

AnonymousUser == "AnonymousUser"
NoToken == ""
\* a query string without token, a token that does not decode, a valid token
\* of a user id that is not in the table, and the tokens of the two users
Tokens == {NoToken, "garbage", "tok_ghost", "tok_m1", "tok_w1"}

\* AccessToken(token_string)['user_id']
AccessToken(token) ==
    CASE token = "tok_m1" -> "m1"
      [] token = "tok_w1" -> "w1"
      [] token = "tok_ghost" -> "ghost"
      [] OTHER -> "TokenError"

get_user_from_token_any_claim(token) ==
    LET user_id == AccessToken(token)
    IN IF user_id = "TokenError" THEN AnonymousUser ELSE user_id

get_user_from_token(token) ==
    LET user_id == AccessToken(token)
    IN IF user_id \in Users THEN user_id ELSE AnonymousUser

JWTAuthMiddleware(token) ==
    IF token # NoToken THEN get_user_from_token(token) ELSE AnonymousUser

NewConsumer ==
    [pc |-> "idle", token |-> NoToken, user |-> AnonymousUser,
     has_group_name |-> FALSE, inbox |-> <<>>, received |-> <<>>]

ConnectionEstablished == [type |-> "connection_established"]

order_update(event) ==
    [type |-> "order_update", action |-> event.action, order |-> event.data]

shift_update(event) ==
    [type |-> "shift_update", action |-> event.action, shift |-> event.data]

\* the handler the channel message's type names
dispatch(event) ==
    IF event.type = "order" THEN order_update(event) ELSE shift_update(event)

\* connect, lines 21-36: the anonymous user is closed with 4001, any other
\* joins the group
connect_join(cn, user) ==
    IF user = AnonymousUser
    THEN [cn EXCEPT !.pc = "refused", !.user = user]
    ELSE [cn EXCEPT !.pc = "joined", !.user = user, !.has_group_name = TRUE]

connect_accept(cn) == [cn EXCEPT !.pc = "accepted"]

connect_confirm_twice(cn) ==
    [cn EXCEPT !.pc = "open",
               !.received = @ \o <<ConnectionEstablished, ConnectionEstablished>>]

connect_confirm(cn) ==
    [cn EXCEPT !.pc = "open", !.received = Append(@, ConnectionEstablished)]

\* the consumer takes the next message of its channel only between handlers
idle_between_handlers(cn) == cn.pc = "open"

forward(cn) ==
    [cn EXCEPT !.inbox = Tail(@), !.received = Append(@, dispatch(Head(cn.inbox)))]

group_discard_never(g, c, cn) == g

group_discard(g, c, cn) == IF cn.has_group_name THEN g \ {c} ELSE g

Sends(ev) == SelectSeq(ev, LAMBDA e : e.kind = "send")

\* channel_layer.group_send: a copy to the queue of every channel of the group
deliver_to_managers(cs, g, ev) ==
    [c \in ConnIds |->
        IF c \in g /\ cs[c].user \in Managers
        THEN [cs[c] EXCEPT !.inbox = @ \o Sends(ev)] ELSE cs[c]]

deliver(cs, g, ev) ==
    [c \in ConnIds |->
        IF c \in g THEN [cs[c] EXCEPT !.inbox = @ \o Sends(ev)] ELSE cs[c]]

\* ---------------------------------------------------------------- responses
\* rest_framework.views.exception_handler: the API exceptions get their status
\* code, anything else is not handled (a server error)
StatusCode(exc, ok) ==
    CASE exc = "none" -> ok
      [] exc = "rest.ValidationError" -> 400
      [] exc = "rest.NotAuthenticated" -> 401
      [] exc = "rest.PermissionDenied" -> 403
      [] exc = "rest.NotFound" -> 404
      [] OTHER -> 500

\* custom_exception_handler: the body of the error response; no body when
\* exception_handler returns None and the exception goes on to the server
custom_exception_handler(exc, errors) ==
    IF exc = "rest.ValidationError"
    THEN IF errors # {}
         THEN <<[keys |-> {"message", "errors"}, errors |-> errors]>>
         ELSE <<[keys |-> {"message"}, errors |-> {}]>>
    ELSE IF exc \in {"rest.NotAuthenticated", "rest.PermissionDenied", "rest.NotFound"}
    THEN <<[keys |-> {"message", "detail"}, errors |-> {}]>>
    ELSE <<>>

Faults == {"none", "send_error"}
ShiftFaults == {"none", "send_error", "save_error"}

RespondBody(op, user, target, keys, ok, db, body) ==
    /\ orders' = db.orders
    /\ shifts' = db.shifts
    /\ events' = db.events
    /\ group' = group
    /\ conns' = deliver(conns, group, db.events)
    /\ reqs' = reqs
    /\ resp' = [op |-> op, actor |-> user, target |-> target, keys |-> keys,
                code |-> StatusCode(db.raised, ok), exc |-> db.raised,
                errors |-> db.errors,
                body |-> IF db.raised = "none" THEN body
                         ELSE custom_exception_handler(db.raised, db.errors)]

\* the response of a request whose body the model does not look at
Respond(op, user, target, keys, ok, db) ==
    RespondBody(op, user, target, keys, ok, db, <<>>)

\* ------------------------------- requests, one store statement at a time
\* No view opens a transaction or locks a row: between two statements of one
\* request the store runs the statements of the others.
ReqIds == 1..MaxRequests

\* the locals of a view that has not been called
NoRequest ==
    [op |-> "none", pc |-> "idle", user |-> NoUser, target |-> 0, data |-> <<>>,
     read |-> <<>>, instance |-> <<>>, active_shifts |-> {}, rows |-> <<>>,
     linked |-> {}, linked_revenue |-> 0, code |-> 0]

\* the view has its response: the request, its target and the status code
Done(rq, code) ==
    [NoRequest EXCEPT !.op = rq.op, !.pc = "done", !.user = rq.user,
                      !.target = rq.target, !.data = rq.data, !.read = rq.read,
                      !.code = code]

Reject(rq, exc) == Done(rq, StatusCode(exc, 0))

\* for shift in active_shifts: the next row of the result, or the create
\* after the last one
next_shift(rq) ==
    IF rq.active_shifts = {} THEN [rq EXCEPT !.pc = "create"]
    ELSE LET i == CHOOSE x \in rq.active_shifts : \A y \in rq.active_shifts : x >= y
         IN [rq EXCEPT !.pc = "count", !.target = i, !.instance = <<rq.rows[i]>>,
                       !.active_shifts = @ \ {i}]

\* open_new up to the query of its for loop: Shift.objects.filter(is_active=True)
\* is run once, when the loop starts
open_new_query(rq, s, user) ==
    LET r1 == [rq EXCEPT !.op = "open_new", !.user = user]
    IN IF ~IsManager(user) THEN Reject(r1, "rest.PermissionDenied")
       ELSE next_shift([r1 EXCEPT !.active_shifts = ActiveIds(s), !.rows = s])

\* close up to the test on the instance get_object read
close_get_object(rq, s, user, sid) ==
    LET r1 == [rq EXCEPT !.op = "close", !.user = user, !.target = sid]
    IN IF ~IsManager(user) THEN Reject(r1, "rest.PermissionDenied")
       ELSE IF sid \notin 1..Len(s) THEN Reject(r1, "rest.NotFound")
       ELSE IF ~s[sid].is_active
            THEN Reject([r1 EXCEPT !.read = <<s[sid]>>], "rest.ValidationError")
       ELSE [r1 EXCEPT !.pc = "count", !.read = <<s[sid]>>, !.instance = <<s[sid]>>]

\* _close_shift: the three assignments and delivered_orders.count()
close_shift_count(rq, o, t) ==
    LET s1 == [rq.instance[1] EXCEPT !.closed_at = t, !.closed_by = rq.user,
                                     !.is_active = FALSE]
        S == delivered_orders(o, s1.opened_at, s1.closed_at)
    IN [rq EXCEPT !.pc = "aggregate",
                  !.instance = <<[s1 EXCEPT !.total_orders_delivered = Cardinality(S)]>>]

\* _close_shift: delivered_orders.aggregate(Sum('price')), a second query
close_shift_aggregate(rq, o) ==
    LET sh == rq.instance[1]
        S == delivered_orders(o, sh.opened_at, sh.closed_at)
    IN [rq EXCEPT !.pc = "update",
                  !.instance = <<[sh EXCEPT !.total_revenue =
                                               close_stats(o, S).total_revenue]>>]

\* _close_shift: delivered_orders.update(delivered_in_shift=shift), a third
\* query; linked and linked_revenue record the rows it matched
close_shift_update(rq, o) ==
    LET sh == rq.instance[1]
        S == delivered_orders(o, sh.opened_at, sh.closed_at)
    IN [rq EXCEPT !.pc = "save", !.linked = S, !.linked_revenue = SumPrice(o, S)]

\* _close_shift: what follows shift.save()
close_shift_saved(rq) ==
    IF rq.op = "close" THEN Done(rq, 200)
    ELSE next_shift(rq)

\* update_status up to the instance get_object read
update_status_get_object(rq, o, user, id, data) ==
    LET r1 == [rq EXCEPT !.op = "update_status", !.user = user, !.target = id,
                         !.data = data]
    IN IF user \notin Users THEN Reject(r1, "rest.NotAuthenticated")
       ELSE IF id \notin DOMAIN o THEN Reject(r1, "rest.NotFound")
       ELSE [r1 EXCEPT !.pc = "save", !.read = <<o[id]>>, !.instance = <<o[id]>>]

\* partial_update up to serializer.save(): get_object, the permissions, validate
\* on the instance that was read
partial_update_get_object(rq, o, user, id, data) ==
    LET r1 == [rq EXCEPT !.op = "partial_update", !.user = user, !.target = id,
                         !.data = data]
    IN IF ~OrderViewSet_check_permissions("PATCH", user)
       THEN Reject(r1, "rest.PermissionDenied")
       ELSE IF id \notin DOMAIN o THEN Reject(r1, "rest.NotFound")
       ELSE IF ~OrderViewSet_check_object_permissions("PATCH", user, Keys(data))
       THEN Reject(r1, "rest.PermissionDenied")
       ELSE IF ~OrderSerializer_validate(o[id], data)
       THEN Reject(r1, "rest.ValidationError")
       ELSE [r1 EXCEPT !.pc = "save", !.read = <<o[id]>>, !.instance = <<o[id]>>]

\* the instance serializer.update hands to instance.save()
updated_instance(rq, t) ==
    IF rq.op = "update_status"
    THEN OrderUpdateStatusSerializer_update(rq.instance[1], rq.data, t)
    ELSE apply_attrs(rq.instance[1], rq.data)

\* instance.save() writing only the columns the request changed in the
\* instance it read (save(update_fields=...)), the others left as stored
instance_save_changed_fields(rq, o, s, t) ==
    LET r == set_delivered_at(updated_instance(rq, t), t)
        old == rq.read[1]
        cur == IF rq.target \in DOMAIN o THEN o[rq.target] ELSE old
        row == [f \in DOMAIN r |-> IF r[f] # old[f] THEN r[f] ELSE cur[f]]
    IN IF ~full_clean(r)
       THEN RaiseFields(Db(o, s), "django.ValidationError", full_clean_errors(r))
       ELSE Order_save(Db(PutOrder(o, rq.target, row), s), rq.target, row,
                       FALSE, t, "none")

\* instance.save() of the two update paths: Order.save on the instance the
\* request read, every column of the row written
instance_save(rq, o, s, t) ==
    Order_save(Db(o, s), rq.target, updated_instance(rq, t), FALSE, t, "none")

\* ------------------------------------------------------------------ actions
Init ==
    /\ orders = <<>>
    /\ nextOrderId = 1
    /\ shifts = <<>>
    /\ now = 1
    /\ resp = [op |-> "init", actor |-> NoUser, target |-> 0, keys |-> {},
               code |-> 200, exc |-> "none", errors |-> {}, body |-> <<>>]
    /\ events = <<>>
    /\ group = {}
    /\ conns = [c \in ConnIds |-> NewConsumer]
    /\ reqs = [r \in ReqIds |-> NoRequest]

Tick ==
    /\ now < MaxTime
    /\ now' = now + 1
    /\ UNCHANGED <<orders, nextOrderId, shifts, resp, events, group, conns, reqs>>

CreateOrder(U, P, F, max) ==
    \E u \in U, data \in P, fault \in F :
        /\ nextOrderId <= max
        /\ LET db == create(Db(orders, shifts), u, nextOrderId, data, now, fault)
           IN /\ Respond("create", u, nextOrderId, Keys(data), 201, db)
              /\ nextOrderId' = IF nextOrderId \in DOMAIN db.orders
                                THEN nextOrderId + 1 ELSE nextOrderId
        /\ UNCHANGED now

UpdateOrder(U, P, F) ==
    \E method \in {"PUT", "PATCH"}, u \in U, id \in DOMAIN orders,
       data \in P, fault \in F :
        /\ Respond(IF method = "PUT" THEN "update" ELSE "partial_update", u, id,
                   Keys(data), 200,
                   update(Db(orders, shifts), method, u, id, data, now, fault))
        /\ UNCHANGED <<nextOrderId, now>>

UpdateStatus(U, P, F) ==
    \E u \in U, id \in DOMAIN orders, data \in P, fault \in F :
        /\ Respond("update_status", u, id, Keys(data), 200,
                   update_status(Db(orders, shifts), u, id, data, now, fault))
        /\ UNCHANGED <<nextOrderId, now>>

DestroyOrder(U, F) ==
    \E u \in U, id \in DOMAIN orders, fault \in F :
        /\ Respond("destroy", u, id, {}, 204,
                   destroy(Db(orders, shifts), u, id, fault))
        /\ UNCHANGED <<nextOrderId, now>>

OpenNewShift(U, F) ==
    \E u \in U, fault \in F :
        /\ Len(shifts) < MaxShifts
        /\ Respond("open_new", u, 0, {}, 201,
                   open_new(Db(orders, shifts), u, now, fault))
        /\ UNCHANGED <<nextOrderId, now>>

CloseShift(U, F) ==
    \E u \in U, sid \in 1..Len(shifts), fault \in F :
        /\ Respond("close", u, sid, {}, 200,
                   close(Db(orders, shifts), u, sid, now, fault))
        /\ UNCHANGED <<nextOrderId, now>>

CreateShift(U, F) ==
    \E u \in U, data \in ShiftBodies, fault \in F :
        /\ Len(shifts) < MaxShifts
        /\ Respond("shift_create", u, Len(shifts) + 1,
                   {k \in {"is_active"} : data.is_active # Missing}
                       \cup {k \in {"closed_at"} : data.closed_at # ABSENT},
                   201, shift_create(Db(orders, shifts), u, data, now, fault))
        /\ UNCHANGED <<nextOrderId, now>>

CurrentShift(U) ==
    \E u \in U :
        /\ LET db == current(Db(orders, shifts), u)
               sid == IF db.raised = "none" THEN first_active(shifts) ELSE 0
           IN RespondBody("current", u, sid, {}, 200, db,
                  IF sid = 0 THEN <<>>
                  ELSE <<ShiftSerializer(orders, sid, shifts[sid])>>)
        /\ UNCHANGED <<nextOrderId, now>>

RetrieveShift(U) ==
    \E u \in U, sid \in 1..Len(shifts) :
        /\ RespondBody("retrieve", u, sid, {}, 200,
                       retrieve(Db(orders, shifts), u, sid),
                       <<ShiftSerializer(orders, sid, shifts[sid])>>)
        /\ UNCHANGED <<nextOrderId, now>>

\* GET /shifts/{id}/delivered_orders/: OrderSerializer(orders, many=True)
DeliveredOrders(U) ==
    \E u \in U, sid \in 1..Len(shifts) :
        /\ RespondBody("delivered_orders", u, sid, {}, 200,
                       retrieve(Db(orders, shifts), u, sid),
                       <<{OrderSerializer(i, orders[i]) :
                            i \in ShiftViewSet_delivered_orders(orders, shifts[sid])}>>)
        /\ UNCHANGED <<nextOrderId, now>>

\* GET /orders/{id}/track/ by a caller without credentials
TrackOrder ==
    \E id \in 1..MaxOrders :
        /\ RespondBody("track", NoUser, id, {}, 200,
                       IF id \in DOMAIN orders THEN Db(orders, shifts)
                       ELSE Raise(Db(orders, shifts), "rest.NotFound"),
                       IF id \in DOMAIN orders THEN <<track(id, orders[id])>>
                       ELSE <<>>)
        /\ UNCHANGED <<nextOrderId, now>>

\* GET of the showcase listing by a caller without credentials
ShowcaseList ==
    \E listing \in ShowcaseListings(orders) :
        /\ RespondBody("showcase", NoUser, 0, {}, 200, Db(orders, shifts),
                       <<listing>>)
        /\ UNCHANGED <<nextOrderId, now>>

\* the handshake of connection c and connect up to its first await
Connect(T) ==
    \E c \in ConnIds, token \in T :
        /\ conns[c].pc = "idle"
        /\ LET cn == connect_join([conns[c] EXCEPT !.token = token],
                                  JWTAuthMiddleware(token))
           IN /\ conns' = [conns EXCEPT ![c] = cn]
              /\ group' = IF cn.has_group_name THEN group \cup {c} ELSE group
        /\ UNCHANGED <<orders, nextOrderId, shifts, now, resp, events, reqs>>

Accept ==
    \E c \in ConnIds :
        /\ conns[c].pc = "joined"
        /\ conns' = [conns EXCEPT ![c] = connect_accept(@)]
        /\ UNCHANGED <<orders, nextOrderId, shifts, now, resp, events, group, reqs>>

Confirm ==
    \E c \in ConnIds :
        /\ conns[c].pc = "accepted"
        /\ conns' = [conns EXCEPT ![c] = connect_confirm(@)]
        /\ UNCHANGED <<orders, nextOrderId, shifts, now, resp, events, group, reqs>>

Forward ==
    \E c \in ConnIds :
        /\ idle_between_handlers(conns[c])
        /\ conns[c].inbox # <<>>
        /\ conns' = [conns EXCEPT ![c] = forward(@)]
        /\ UNCHANGED <<orders, nextOrderId, shifts, now, resp, events, group, reqs>>

\* websocket.disconnect: disconnect, then the consumer stops
Disconnect ==
    \E c \in ConnIds :
        /\ conns[c].pc \in {"open", "refused"}
        /\ group' = group_discard(group, c, conns[c])
        /\ conns' = [conns EXCEPT ![c].pc = "closed"]
        /\ UNCHANGED <<orders, nextOrderId, shifts, now, resp, events, reqs>>

\* the steps of the requests handled one store statement at a time
\* what a step of a request leaves in the store and sends to the group
Commit(db) ==
    /\ orders' = db.orders
    /\ shifts' = db.shifts
    /\ events' = db.events
    /\ group' = group
    /\ conns' = deliver(conns, group, db.events)
    /\ UNCHANGED <<nextOrderId, now, resp>>

StoreUnchanged ==
    UNCHANGED <<orders, nextOrderId, shifts, now, resp, events, group, conns>>

\* a request is handled in the first slot that is free
Free(r) ==
    /\ reqs[r].pc = "idle"
    /\ \A q \in ReqIds : q < r => reqs[q].pc # "idle"

\* the requests that will still create a shift
PendingCreates ==
    Cardinality({r \in ReqIds : reqs[r].op = "open_new"
                                /\ reqs[r].pc \notin {"idle", "done"}})

OpenNewQuery(U) ==
    \E r \in ReqIds, u \in U :
        /\ Free(r)
        /\ Len(shifts) + PendingCreates < MaxShifts
        /\ reqs' = [reqs EXCEPT ![r] = open_new_query(@, shifts, u)]
        /\ StoreUnchanged

CloseGetObject(U) ==
    \E r \in ReqIds, u \in U, sid \in 1..Len(shifts) :
        /\ Free(r)
        /\ reqs' = [reqs EXCEPT ![r] = close_get_object(@, shifts, u, sid)]
        /\ StoreUnchanged

CloseShiftCount ==
    \E r \in ReqIds :
        /\ reqs[r].pc = "count"
        /\ reqs' = [reqs EXCEPT ![r] = close_shift_count(@, orders, now)]
        /\ StoreUnchanged

CloseShiftAggregate ==
    \E r \in ReqIds :
        /\ reqs[r].pc = "aggregate"
        /\ reqs' = [reqs EXCEPT ![r] = close_shift_aggregate(@, orders)]
        /\ StoreUnchanged

CloseShiftUpdate ==
    \E r \in ReqIds :
        /\ reqs[r].pc = "update"
        /\ reqs' = [reqs EXCEPT ![r] = close_shift_update(@, orders)]
        /\ LET sh == reqs[r].instance[1]
           IN Commit(link_orders(Db(orders, shifts),
                                 delivered_orders(orders, sh.opened_at, sh.closed_at),
                                 reqs[r].target))

CloseShiftSave ==
    \E r \in ReqIds :
        /\ reqs[r].pc = "save"
        /\ reqs[r].op \in {"open_new", "close"}
        /\ reqs' = [reqs EXCEPT ![r] = close_shift_saved(@)]
        /\ Commit(Shift_save(Db(orders, shifts), reqs[r].target,
                             reqs[r].instance[1], FALSE, "none"))

OpenNewCreate ==
    \E r \in ReqIds :
        /\ reqs[r].pc = "create"
        /\ reqs' = [reqs EXCEPT ![r] = Done([@ EXCEPT !.target = Len(shifts) + 1], 201)]
        /\ Commit(create_shift(Db(orders, shifts), reqs[r].user, now, "none"))

UpdateStatusGetObject(U, P) ==
    \E r \in ReqIds, u \in U, id \in DOMAIN orders, data \in P :
        /\ Free(r)
        /\ reqs' = [reqs EXCEPT ![r] = update_status_get_object(@, orders, u, id, data)]
        /\ StoreUnchanged

PartialUpdateGetObject(U, P) ==
    \E r \in ReqIds, u \in U, id \in DOMAIN orders, data \in P :
        /\ Free(r)
        /\ reqs' = [reqs EXCEPT ![r] = partial_update_get_object(@, orders, u, id, data)]
        /\ StoreUnchanged

InstanceSave ==
    \E r \in ReqIds :
        /\ reqs[r].pc = "save"
        /\ reqs[r].op \in {"update_status", "partial_update"}
        /\ LET db == instance_save(reqs[r], orders, shifts, now)
           IN /\ reqs' = [reqs EXCEPT ![r] = Done(@, StatusCode(db.raised, 200))]
              /\ Commit(db)

\* return Response(...): the view is left and its locals are gone
Return ==
    \E r \in ReqIds :
        /\ reqs[r].pc = "done"
        /\ reqs' = [reqs EXCEPT ![r] = NoRequest]
        /\ StoreUnchanged

\* ----------------------------------------------------------- specifications
NoFaults == {"none"}

\* Spec: the shift workflow.  The order requests are the ones a shift's
\* statistics depend on (a priced order, created delivered or not, a status
\* change, a delete); the store fault and the channel fault are those of the
\* shift requests.
ShiftCreatePayloads ==
    [customer_name : {"a"}, customer_phone : {"010"}, price : {10, 20},
     status : {Missing, "DELIVERED"}]
ShiftStatusPayloads ==
    [customer_name : {Missing}, customer_phone : {Missing}, price : {ABSENT},
     status : {"UNDER_WORK", "DELIVERED"}]

Next ==
    \/ Tick
    \/ CreateOrder(Workers, ShiftCreatePayloads, NoFaults, MaxOrders)
    \/ UpdateStatus(Workers, ShiftStatusPayloads, NoFaults)
    \/ DestroyOrder(Managers, NoFaults)
    \/ OpenNewShift(Managers, ShiftFaults)
    \/ CloseShift(Managers, ShiftFaults)

Spec == Init /\ [][Next]_vars

\* SpecOrder: the order workflow and its access policy, with every request
\* body over the fields, by a manager and by a worker.  The customer's fields
\* come together: a name with its phone number.
PhoneOf(name) ==
    IF name = "a" THEN "010" ELSE IF name = "b" THEN "011" ELSE Missing

OrderPayloads == {d \in Payloads : d.customer_phone = PhoneOf(d.customer_name)}

UpdateStatusPayloads ==
    {d \in OrderPayloads : d.price = ABSENT /\ d.customer_name # "a"}

NextOrder ==
    \/ Tick
    \/ CreateOrder(Users, OrderPayloads, Faults, MaxWorkflowOrders)
    \/ UpdateOrder(Users, OrderPayloads, Faults)
    \/ UpdateStatus(Users, UpdateStatusPayloads, Faults)
    \/ DestroyOrder(Users, Faults)

SpecOrder == Init /\ [][NextOrder]_vars

\* SpecBroadcast: every mutation of an order or a shift, each with the channel
\* layer reachable or not, on one order.
CastCreatePayloads ==
    [customer_name : {"a"}, customer_phone : {"010"}, price : {10},
     status : {Missing, "DELIVERED"}]
CastEditPayloads ==
    [customer_name : {"b"}, customer_phone : {"011"}, price : {ABSENT, 20},
     status : {Missing}]

NextBroadcast ==
    \/ Tick
    \/ CreateOrder(Workers, CastCreatePayloads, Faults, MaxWorkflowOrders)
    \/ UpdateOrder(Managers, CastEditPayloads, Faults)
    \/ UpdateStatus(Workers, ShiftStatusPayloads, Faults)
    \/ DestroyOrder(Managers, Faults)
    \/ OpenNewShift(Managers, ShiftFaults)
    \/ CloseShift(Managers, ShiftFaults)
    \/ CurrentShift(Users)
    \/ RetrieveShift(Users)

SpecBroadcast == Init /\ [][NextBroadcast]_vars

\* SpecAccess: the manager-only mutations, requested by the manager and by
\* the worker.
NextAccess ==
    \/ Tick
    \/ CreateOrder(Workers, ShiftCreatePayloads, NoFaults, MaxWorkflowOrders)
    \/ DestroyOrder(Users, NoFaults)
    \/ OpenNewShift(Users, NoFaults)
    \/ CloseShift(Users, NoFaults)

SpecAccess == Init /\ [][NextAccess]_vars

\* SpecPublic: the two reads that need no credentials, on a store of orders
\* of both users, priced and delivered at either instant, linked to a shift
\* or not.
PublicCreatePayloads ==
    {d \in OrderPayloads : d.customer_name # Missing /\ d.price \in {10, 20}
                            /\ d.status \in {Missing, "DELIVERED"}}

NextPublic ==
    \/ Tick
    \/ CreateOrder(Users, PublicCreatePayloads, NoFaults, MaxOrders)
    \/ OpenNewShift(Managers, NoFaults)
    \/ CloseShift(Managers, NoFaults)
    \/ TrackOrder
    \/ ShowcaseList

SpecPublic == Init /\ [][NextPublic]_vars

\* SpecShifts: every shift operation a manager can reach, the generic create
\* of the collection among them.
NextShifts ==
    \/ Tick
    \/ CreateOrder(Workers, ShiftCreatePayloads, NoFaults, MaxWorkflowOrders)
    \/ OpenNewShift(Managers, NoFaults)
    \/ CloseShift(Managers, NoFaults)
    \/ CreateShift(Users, NoFaults)
    \/ UpdateStatus(Workers, ShiftStatusPayloads, NoFaults)

SpecShifts == Init /\ [][NextShifts]_vars

\* SpecLive: the live-update connections, each with every kind of token,
\* beside requests that publish order and shift notifications.
LiveCreatePayloads ==
    [customer_name : {"a"}, customer_phone : {"010"}, price : {10},
     status : {Missing}]

NextLive ==
    \/ Connect(Tokens)
    \/ Accept
    \/ Confirm
    \/ Forward
    \/ Disconnect
    \/ CreateOrder(Workers, LiveCreatePayloads, NoFaults, MaxWorkflowOrders)
    \/ DestroyOrder(Managers, NoFaults)
    \/ OpenNewShift(Managers, NoFaults)

SpecLive == Init /\ [][NextLive]_vars

\* SpecListing: the delivered-orders listing of a shift, beside the requests
\* that open and close shifts and that create, deliver, take back and delete
\* orders.  timezone.now() of a save is later than the closed_at of a close
\* that was handled before it: an order is saved only once the clock has
\* left the instant of every close.
ClockLeftCloses == \A sid \in 1..Len(shifts) : shifts[sid].closed_at # now

ListingCreateOrder ==
    /\ ClockLeftCloses
    /\ CreateOrder(Workers, ShiftCreatePayloads, NoFaults, MaxOrders)

ListingUpdateStatus ==
    /\ ClockLeftCloses
    /\ UpdateStatus(Workers, ShiftStatusPayloads, NoFaults)

NextListing ==
    \/ Tick
    \/ ListingCreateOrder
    \/ ListingUpdateStatus
    \/ DestroyOrder(Managers, NoFaults)
    \/ OpenNewShift(Managers, NoFaults)
    \/ CloseShift(Managers, NoFaults)
    \/ DeliveredOrders(Users)

SpecListing == Init /\ [][NextListing]_vars

\* SpecShiftRace: open_new and close handled one store statement at a time,
\* MaxRequests of them in flight together, beside the order requests a
\* shift's statistics depend on.
RaceOrderPayloads ==
    [customer_name : {"a"}, customer_phone : {"010"}, price : {10},
     status : {Missing}]

RaceDeliverPayloads ==
    [customer_name : {Missing}, customer_phone : {Missing}, price : {ABSENT},
     status : {"DELIVERED"}]

NextShiftRace ==
    \/ Tick
    \/ CreateOrder(Workers, RaceOrderPayloads, NoFaults, MaxWorkflowOrders)
    \/ UpdateStatus(Workers, RaceDeliverPayloads, NoFaults)
    \/ OpenNewQuery(Managers)
    \/ CloseGetObject(Managers)
    \/ CloseShiftCount
    \/ CloseShiftAggregate
    \/ CloseShiftUpdate
    \/ CloseShiftSave
    \/ OpenNewCreate
    \/ Return

SpecShiftRace == Init /\ [][NextShiftRace]_vars

\* SpecOrderRace: a worker's status-only update and a manager's PATCH of one
\* order, each reading the order and then saving it, in flight together.
RaceCreatePayloads ==
    [customer_name : {"a"}, customer_phone : {"010"}, price : {NULL, 10},
     status : {Missing, "DELIVERED"}]
RaceStatusPayloads ==
    [customer_name : {Missing}, customer_phone : {Missing}, price : {ABSENT},
     status : {"UNDER_WORK", "DELIVERED"}]
RaceEditPayloads ==
    [customer_name : {Missing}, customer_phone : {Missing},
     price : {ABSENT, NULL, 0, 20}, status : {Missing, "UNDER_WORK", "DELIVERED"}]

NextOrderRace ==
    \/ Tick
    \/ CreateOrder(Managers, RaceCreatePayloads, NoFaults, MaxWorkflowOrders)
    \/ UpdateStatusGetObject(Workers, RaceStatusPayloads)
    \/ PartialUpdateGetObject(Managers, RaceEditPayloads)
    \/ InstanceSave
    \/ Return

SpecOrderRace == Init /\ [][NextOrderRace]_vars

\* ------------------------------------------------------------------- claims
Success == {200, 201, 204}

\* C1: every persisted order has status DELIVERED exactly when its
\* delivered_at is not null, after any sequence of order creates, full and
\* partial updates and status-only updates.
C1_DeliveredIffDeliveredAt ==
    \A i \in DOMAIN orders :
        (orders[i].status = "DELIVERED") <=> (orders[i].delivered_at # NULL)

\* an order has just been delivered by a status-only update, later than
\* the first tick of the clock
C1_Witness ==
    /\ resp.op = "update_status"
    /\ resp.code = 200
    /\ resp.target \in DOMAIN orders
    /\ orders[resp.target].status = "DELIVERED"
    /\ orders[resp.target].delivered_at = MaxTime

\* C2: at most one shift is active after any sequence of open-new-shift and
\* close-shift requests handled one at a time, starting with no shift.
C2_AtMostOneActive == Cardinality(ActiveIds(shifts)) <= 1

\* a second shift has been opened while the first was active
C2_Witness ==
    /\ resp.op = "open_new"
    /\ resp.code = 201
    /\ Len(shifts) = 2
    /\ shifts[2].is_active
    /\ shifts[1].closed_at = shifts[2].opened_at

ValidationErrors == {"rest.ValidationError", "django.ValidationError"}

\* a handler's result db rejected the request and wrote and sent nothing; a
\* request the access policy refuses is refused before it is validated
C3_Rejected(db) ==
    /\ db.raised \in ValidationErrors \cup {"rest.PermissionDenied"}
    /\ db.orders = orders
    /\ db.events = <<>>

\* C3: no persisted order is DELIVERED with a null or zero price, and in every
\* reachable state each save entry point (create, PUT, PATCH, status-only
\* update) rejects a request that would save such an order, leaving the
\* store as it was.
C3_DeliveredNeedsPrice ==
    /\ \A i \in DOMAIN orders :
          orders[i].status = "DELIVERED" => orders[i].price \notin {NULL, 0}
    /\ \A u \in Users, data \in Payloads, f \in Faults :
          /\ (data.status = "DELIVERED" /\ data.price \in {NULL, 0, ABSENT})
                => C3_Rejected(create(Db(orders, shifts), u, nextOrderId, data, now, f))
          /\ \A i \in DOMAIN orders :
                LET status == IF data.status = Missing THEN orders[i].status
                              ELSE data.status
                    price == IF data.price = ABSENT THEN orders[i].price
                             ELSE data.price
                IN /\ (status = "DELIVERED" /\ price \in {NULL, 0})
                        => \A method \in {"PUT", "PATCH"} :
                              C3_Rejected(update(Db(orders, shifts), method, u, i,
                                                 data, now, f))
                   /\ (data.status = "DELIVERED" /\ orders[i].price \in {NULL, 0})
                        => C3_Rejected(update_status(Db(orders, shifts), u, i,
                                                     data, now, f))

\* a status-only update to DELIVERED of an order whose price is zero has just
\* been refused
C3_Witness ==
    /\ resp.op = "update_status"
    /\ resp.exc = "django.ValidationError"
    /\ "status" \in resp.keys
    /\ resp.target \in DOMAIN orders
    /\ orders[resp.target].price = 0
    /\ orders[resp.target].status # "DELIVERED"

\* the sum of the prices of the orders W of table o
C4_Sum(o, W) ==
    LET f[S \in SUBSET W] ==
            IF S = {} THEN 0
            ELSE LET x == CHOOSE y \in S : TRUE IN o[x].price + f[S \ {x}]
    IN f[W]

\* C4: a step that takes a persisted shift s from active to closed stores in
\* s the exact count and the exact price sum of the orders that are DELIVERED
\* with opened_at <= delivered_at <= closed_at, links exactly those orders to
\* s, and leaves every other order's shift reference as it was.
C4_CloseStatsExact ==
    [][\A s \in 1..Len(shifts) :
          (shifts[s].is_active /\ ~shifts'[s].is_active) =>
             LET sh == shifts'[s]
                 W == {i \in DOMAIN orders :
                          /\ orders[i].status = "DELIVERED"
                          /\ sh.opened_at <= orders[i].delivered_at
                          /\ orders[i].delivered_at <= sh.closed_at}
             IN /\ sh.total_orders_delivered = Cardinality(W)
                /\ sh.total_revenue = C4_Sum(orders, W)
                /\ DOMAIN orders' = DOMAIN orders
                /\ \A i \in DOMAIN orders :
                      orders'[i].delivered_in_shift =
                          IF i \in W THEN s ELSE orders[i].delivered_in_shift]_vars

\* the second shift has just been closed with one order inside its window,
\* counted and linked, and one delivered before it opened, which keeps its
\* link to the first shift
C4_Witness ==
    /\ resp.op = "close"
    /\ resp.code = 200
    /\ resp.target = 2
    /\ Len(shifts) = 2
    /\ ~shifts[2].is_active
    /\ DOMAIN orders = {1, 2}
    /\ orders[1].status = "DELIVERED"
    /\ orders[1].delivered_at < shifts[2].opened_at
    /\ orders[1].delivered_in_shift = 1
    /\ orders[2].status = "DELIVERED"
    /\ orders[2].delivered_in_shift = 2
    /\ shifts[2].total_orders_delivered = 1
    /\ shifts[2].total_revenue = orders[2].price
    /\ orders[1].price # orders[2].price

\* the request's write of shift id, as a row or as a new row
C5_IsShiftWrite(e, action, id) ==
    e.kind = "write" /\ e.type = "shift" /\ e.action = action /\ e.id = id

\* C5: a successful open_new creates the new shift active, with zeroed
\* statistics and the actor as opener; every shift A that was active has been
\* closed by the same request with the actor as closer, its closed row
\* (closed_at, statistics) written before the new shift's row; and after no
\* write of the request are two shifts active.
C5_OpenClosesFirst ==
    [][(resp'.op = "open_new" /\ resp'.code = 201 /\ Len(shifts') = Len(shifts) + 1) =>
          LET n == Len(shifts')
              u == resp'.actor
          IN /\ shifts'[n] = [opened_at |-> now, closed_at |-> NULL,
                              opened_by |-> u, closed_by |-> NoUser,
                              is_active |-> TRUE, total_orders_delivered |-> 0,
                              total_revenue |-> 0]
             /\ \A a \in ActiveIds(shifts) :
                   /\ ~shifts'[a].is_active
                   /\ shifts'[a].closed_at = now
                   /\ shifts'[a].closed_by = u
                   /\ \E j, k \in 1..Len(events') :
                         /\ j < k
                         /\ C5_IsShiftWrite(events'[j], "updated", a)
                         /\ events'[j].data = shifts'[a]
                         /\ a \notin events'[j].active
                         /\ C5_IsShiftWrite(events'[k], "created", n)
             /\ \A j \in 1..Len(events') : Cardinality(events'[j].active) <= 1]_vars

\* a second shift has just been opened by a request that closed the first,
\* which had a delivered order in its window
C5_Witness ==
    /\ resp.op = "open_new"
    /\ resp.code = 201
    /\ Len(shifts) = 2
    /\ shifts[2].is_active
    /\ ~shifts[1].is_active
    /\ shifts[1].total_orders_delivered >= 1
    /\ \E j \in 1..Len(events) : C5_IsShiftWrite(events[j], "updated", 1)

\* C6: the close procedure is all-or-nothing: a close that raised has
\* written nothing; no persisted shift is closed without its closing stamp;
\* and every order that is linked to a shift is linked to a shift that is
\* persisted as closed.
C6_CloseAllOrNothing ==
    /\ (resp.op \in {"close", "open_new"} /\ resp.exc = "DatabaseError")
          => \A j \in 1..Len(events) : events[j].kind # "write"
    /\ \A s \in 1..Len(shifts) :
          ~shifts[s].is_active =>
              shifts[s].closed_at # NULL /\ shifts[s].closed_by # NoUser
    /\ \A i \in DOMAIN orders :
          orders[i].delivered_in_shift # NULL =>
              ~shifts[orders[i].delivered_in_shift].is_active

C7_HasWrite(ev, type, action) ==
    \E j \in 1..Len(ev) :
        ev[j].kind = "write" /\ ev[j].type = type /\ ev[j].action = action

\* C7: a broadcast failure is never surfaced to the caller of a mutation: a
\* request that persisted a mutation and met no store error answers with its
\* success code, and an open_new that closed the active shift goes on to
\* create the new one.
C7_BroadcastFailureSwallowed ==
    /\ resp.exc # "ChannelLayerError"
    /\ ((\E j \in 1..Len(events) : events[j].kind = "write")
            /\ resp.exc # "DatabaseError") => resp.code \in Success
    /\ (resp.op = "open_new" /\ C7_HasWrite(events, "shift", "updated"))
          => C7_HasWrite(events, "shift", "created")

\* C8: an update request by a worker whose fields are not a subset of
\* {status} is answered 403 and leaves the orders as they were, at every
\* update entry point (PUT, PATCH, the status-only action).
C8_WorkerOnlyStatus ==
    [][(/\ resp'.actor \in Workers
        /\ resp'.op \in {"update", "partial_update", "update_status"}
        /\ ~(resp'.keys \subseteq {"status"}))
          => (resp'.code = 403 /\ orders' = orders)]_vars

C9_Count(ev, kind, e) ==
    Cardinality({k \in 1..Len(ev) :
                    /\ ev[k].kind = kind
                    /\ ev[k].type = e.type
                    /\ ev[k].action = e.action
                    /\ ev[k].id = e.id})

\* C9: a request that ended without an exception published, for every row of
\* Order or Shift it created, updated or deleted (the orders the close
\* procedure links among them), exactly one notification with that entity
\* type, action and id.
C9_OneNotificationPerMutation ==
    resp.exc = "none" =>
        \A j \in 1..Len(events) :
            events[j].kind = "write" =>
                C9_Count(events, "send", events[j]) = C9_Count(events, "write", events[j])

\* C10: every notification of an order's creation or update was published
\* after the write of that row, carries the written row's fields, and that row
\* is what the store holds; a deletion's notification follows the delete; and
\* a request refused by validation or by the access policy wrote nothing and
\* published nothing.
C10_PublishedAfterPersisted ==
    /\ \A k \in 1..Len(events) :
          (events[k].kind = "send" /\ events[k].type = "order") =>
              \E j \in 1..(k - 1) :
                  /\ events[j].kind = "write"
                  /\ events[j].type = "order"
                  /\ events[j].action = events[k].action
                  /\ events[j].id = events[k].id
                  /\ IF events[k].action = "deleted"
                     THEN events[k].id \notin DOMAIN orders
                     ELSE /\ events[k].id \in DOMAIN orders
                          /\ orders[events[k].id] = events[j].data
                          /\ events[k].data.customer_name = events[j].data.customer_name
                          /\ events[k].data.price = events[j].data.price
                          /\ events[k].data.status = events[j].data.status
                          /\ events[k].data.delivered_at = events[j].data.delivered_at
    /\ resp.exc \in ValidationErrors \cup {"rest.PermissionDenied"}
          => events = <<>>

\* a create of a DELIVERED order without a price has just failed in full_clean
C10_Witness ==
    /\ resp.op = "create"
    /\ resp.exc = "django.ValidationError"
    /\ orders = <<>>


\* C11: a connection whose handshake carried no token, or a token that does
\* not resolve to a user of the table, is refused: it is not in the group, its
\* channel was sent nothing and its socket received nothing, the confirmation
\* included; every member of the group is the connection of a user.
C11_UnauthenticatedRefused ==
    /\ \A c \in ConnIds :
          (conns[c].pc # "idle" /\ conns[c].token \notin {"tok_m1", "tok_w1"})
              => /\ c \notin group
                 /\ conns[c].pc \in {"refused", "closed"}
                 /\ conns[c].inbox = <<>>
                 /\ conns[c].received = <<>>
    /\ \A c \in group : conns[c].user \in Users

\* a token of a missing user was refused while the other connection has been
\* sent the confirmation and a notification
C11_Witness ==
    \E c, d \in ConnIds :
        /\ conns[c].token = "tok_ghost"
        /\ conns[c].pc = "refused"
        /\ d \in group
        /\ Len(conns[d].received) >= 2

C12_Confirmations(cn) ==
    Cardinality({k \in 1..Len(cn.received) : cn.received[k] = ConnectionEstablished})

\* C12: a connection whose connect has returned is in the group (until its
\* disconnect) and has received the confirmation exactly once; whatever a
\* socket has received starts with the confirmation, so no notification was
\* delivered before it, also when one was published while connect was running.
C12_ConfirmedOnceFirst ==
    \A c \in ConnIds :
        /\ conns[c].pc = "open" => c \in group
        /\ (conns[c].pc = "open" \/ (conns[c].pc = "closed" /\ conns[c].user \in Users))
              => C12_Confirmations(conns[c]) = 1
        /\ conns[c].received # <<>> => conns[c].received[1] = ConnectionEstablished
        /\ C12_Confirmations(conns[c]) <= 1

\* one connection received the confirmation and then a notification; the
\* other is still in connect, with a notification waiting on its channel
C12_Witness ==
    \E c, d \in ConnIds :
        /\ conns[c].pc = "open"
        /\ Len(conns[c].received) >= 2
        /\ conns[c].received[2].type \in {"order_update", "shift_update"}
        /\ conns[d].pc = "accepted"
        /\ conns[d].inbox # <<>>
        /\ conns[d].received = <<>>

C13_Joined(cs) == {c \in ConnIds : cs[c].pc \in {"joined", "accepted", "open"}}

C13_Accepted(cs) == {c \in ConnIds : cs[c].pc \in {"accepted", "open"}}

\* once disconnected, a connection is out of the group and nothing more is
\* queued for it or delivered to it
C13_Gone(c) ==
    conns[c].pc = "closed" => (c \notin group' /\ conns'[c] = conns[c])

\* C13 (as stated): a disconnected connection is out of the group and is
\* delivered nothing more, and at all times the group is exactly the set of
\* accepted connections that have not disconnected.
C13_GroupIsAcceptedNotDisconnected ==
    [][/\ \A c \in ConnIds : C13_Gone(c)
       /\ group' = C13_Accepted(conns')]_vars

\* C13 (amended): a disconnected connection is out of the group and is
\* delivered nothing more, and at all times the group is exactly the set of
\* authenticated connections that connect has joined to it (which it does
\* before it accepts them) and that have not disconnected; every accepted
\* connection that has not disconnected is a member.
C13_GroupIsJoinedNotDisconnected ==
    [][/\ \A c \in ConnIds : C13_Gone(c)
       /\ group' = C13_Joined(conns')
       /\ C13_Accepted(conns') \subseteq group']_vars

\* a subscriber has disconnected and a notification published afterwards
\* waits for the other connection, which has joined and is not accepted yet
C13_Witness ==
    \E c, d \in ConnIds :
        /\ conns[c].pc = "closed"
        /\ conns[c].received # <<>>
        /\ conns[c].inbox = <<>>
        /\ c \notin group
        /\ conns[d].pc = "joined"
        /\ conns[d].inbox # <<>>

\* the message a subscriber is to get for a published notification
C14_Note(e) ==
    IF e.type = "order"
    THEN [type |-> "order_update", action |-> e.action, order |-> e.data]
    ELSE [type |-> "shift_update", action |-> e.action, shift |-> e.data]

C14_Notes(q) == [k \in 1..Len(q) |-> C14_Note(q[k])]

\* the notifications of a connection: those its socket received, then those
\* still waiting on its channel
C14_Stream(cn) ==
    SelectSeq(cn.received, LAMBDA m : m # ConnectionEstablished)
        \o C14_Notes(cn.inbox)

C14_Grew(c, delta) == C14_Stream(conns'[c]) = C14_Stream(conns[c]) \o delta

\* C14: in every step, the notifications the step published (those of the
\* request it ran, none if it ran none) are added, in order and with type,
\* action and entity as published, to the stream of every member of the group
\* alike, whoever its user is, and to no other connection; forwarding to the
\* socket keeps the stream.
C14_FannedOutToAll ==
    [][\E delta \in {<<>>, C14_Notes(Sends(events'))} :
          /\ (resp' # resp \/ events' # events) => delta = C14_Notes(Sends(events'))
          /\ \A c \in group : C14_Grew(c, delta)
          /\ \A c \in ConnIds \ group : C14_Grew(c, <<>>)]_vars

\* a manager's and a worker's connection, registered together, have received
\* the same notifications, of an order and of a shift
C14_Witness ==
    /\ conns[1].user # conns[2].user
    /\ conns[1].pc = "open" /\ conns[2].pc = "open"
    /\ conns[1].received = conns[2].received
    /\ \E j, k \in 1..Len(conns[1].received) :
          /\ conns[1].received[j].type = "order_update"
          /\ conns[1].received[k].type = "shift_update"

C15_Was(id) == IF id \in DOMAIN orders THEN orders[id].status ELSE "none"

\* C15: a step that brings an order into DELIVERED (by create, PUT, PATCH or
\* the status-only action) leaves its delivered_at at the time of that step,
\* whatever it was before, and a step that takes an order out of DELIVERED
\* leaves its delivered_at null; so a second delivery carries its own time.
C15_DeliveredAtFollowsTransition ==
    [][\A id \in DOMAIN orders' :
          /\ (C15_Was(id) # "DELIVERED" /\ orders'[id].status = "DELIVERED")
                => orders'[id].delivered_at = now'
          /\ (C15_Was(id) = "DELIVERED" /\ orders'[id].status # "DELIVERED")
                => orders'[id].delivered_at = NULL]_vars

\* a PATCH by the manager has just delivered the order at the last instant
C15_Witness ==
    /\ resp.op = "partial_update"
    /\ resp.code = 200
    /\ "status" \in resp.keys
    /\ resp.target \in DOMAIN orders
    /\ orders[resp.target].status = "DELIVERED"
    /\ orders[resp.target].delivered_at = MaxTime
    /\ \E j \in 1..Len(events) :
          events[j].kind = "write" /\ events[j].data.delivered_at = MaxTime

\* C16: a manager's close of a shift that is stored closed is answered with
\* the 'already closed' validation error (400), and the step leaves every
\* shift (closed_at, closed_by and statistics included) and every order (its
\* shift reference included) as it was, writing and publishing nothing.
C16_CloseClosedRejected ==
    [][(/\ resp' # resp
        /\ resp'.op = "close"
        /\ resp'.actor \in Managers
        /\ resp'.target \in 1..Len(shifts)
        /\ ~shifts[resp'.target].is_active)
          => /\ resp'.exc = "rest.ValidationError"
             /\ resp'.code = 400
             /\ shifts' = shifts
             /\ orders' = orders
             /\ events' = <<>>]_vars

\* the close of a closed shift has just been rejected, at a later instant
\* than its closing and with a delivered order that its window did not have
C16_Witness ==
    /\ resp.op = "close"
    /\ resp.exc = "rest.ValidationError"
    /\ resp.target \in 1..Len(shifts)
    /\ shifts[resp.target].closed_at < now
    /\ shifts[resp.target].total_orders_delivered = 0
    /\ \E i \in DOMAIN orders :
          /\ orders[i].status = "DELIVERED"
          /\ orders[i].delivered_at >= shifts[resp.target].opened_at
          /\ orders[i].delivered_in_shift = NULL

\* C17: a shift that is stored closed is still stored, and closed, after
\* every step of the shift and order requests.
C17_NeverReopened ==
    [][\A s \in 1..Len(shifts) :
          ~shifts[s].is_active
              => (s \in 1..Len(shifts') /\ ~shifts'[s].is_active)]_vars

\* two shifts closed one after the other, and an order request after that
C17_Witness ==
    /\ Len(shifts) = 2
    /\ ~shifts[1].is_active /\ ~shifts[2].is_active
    /\ shifts[1].closed_at < shifts[2].closed_at
    /\ resp.op \in {"create", "update_status", "destroy"}
    /\ resp.code \in Success

C18_Reported(o, s, sh) ==
    LET d == ShiftSerializer(o, s, sh)
    IN <<d.total_orders_delivered, d.total_revenue>>

\* C18: for a shift that is stored closed, the totals a read reports are the
\* same after every step as before it, whether the step edits the price or
\* the status of an order of its window, deletes one, or opens or closes
\* another shift; and a read of it in that step answers those totals.
C18_ClosedStatsFrozen ==
    [][\A s \in 1..Len(shifts) :
          ~shifts[s].is_active =>
              /\ C18_Reported(orders', s, shifts'[s]) = C18_Reported(orders, s, shifts[s])
              /\ (resp'.op = "retrieve" /\ resp'.target = s /\ resp'.code = 200)
                    => <<resp'.body[1].total_orders_delivered,
                         resp'.body[1].total_revenue>>
                           = C18_Reported(orders, s, shifts[s])]_vars

\* a closed shift is read with the one order and the revenue 10 it closed
\* with, after that order's price was changed or the order left DELIVERED or
\* was deleted
C18_Witness ==
    /\ resp.op = "retrieve"
    /\ resp.code = 200
    /\ ~resp.body[1].is_active
    /\ resp.body[1].total_orders_delivered = 1
    /\ resp.body[1].total_revenue = 10
    /\ \A i \in DOMAIN orders :
          orders[i].status # "DELIVERED" \/ orders[i].price # 10

C19_Since(opened_at) ==
    {i \in DOMAIN orders :
        orders[i].status = "DELIVERED" /\ orders[i].delivered_at >= opened_at}

RECURSIVE C19_Sum(_)
C19_Sum(S) ==
    IF S = {} THEN 0
    ELSE LET i == CHOOSE x \in S : TRUE IN orders[i].price + C19_Sum(S \ {i})

\* C19: a read of an active shift answers, as delivered count and revenue, the
\* number and the price sum of the orders that are DELIVERED now with
\* delivered_at at or after the shift's opened_at, with no upper bound.
C19_ActiveStatsComputed ==
    (/\ resp.op \in {"current", "retrieve"}
     /\ resp.code = 200
     /\ resp.body[1].is_active)
        => /\ resp.body[1].total_orders_delivered
                 = Cardinality(C19_Since(resp.body[1].opened_at))
           /\ resp.body[1].total_revenue = C19_Sum(C19_Since(resp.body[1].opened_at))

\* the active shift is read with one delivered order and its revenue while
\* its stored snapshot fields are still zero, the order having been delivered
\* after the shift opened
C19_Witness ==
    /\ resp.op = "current"
    /\ resp.code = 200
    /\ resp.body[1].total_orders_delivered = 1
    /\ resp.body[1].total_revenue > 0
    /\ shifts[resp.target].total_orders_delivered = 0
    /\ shifts[resp.target].total_revenue = 0
    /\ \E i \in DOMAIN orders : orders[i].delivered_at > shifts[resp.target].opened_at

\* C20: a worker's request to delete an order, to open a new shift or to
\* close a shift is answered 403, and the step it is answered in leaves every
\* order and every shift as it was and writes and publishes nothing.
C20_WorkerManagerOnlyRefused ==
    [][(/\ resp'.actor \in Workers
        /\ resp'.op \in {"destroy", "open_new", "close"})
          => /\ resp'.code = 403
             /\ resp'.exc = "rest.PermissionDenied"
             /\ orders' = orders
             /\ shifts' = shifts
             /\ events' = <<>>]_vars

\* the worker's close of the active shift has just been refused, with a
\* delivered order in the store
C20_Witness ==
    /\ resp.actor \in Workers
    /\ resp.op = "close"
    /\ resp.code = 403
    /\ shifts[resp.target].is_active
    /\ shifts[resp.target].closed_at = NULL
    /\ \E i \in DOMAIN orders : orders[i].status = "DELIVERED"

\* C21: a request that tried to put an order into DELIVERED without a price
\* (create, PUT, PATCH or the status-only action, refused with a validation
\* error on the price field) is answered 400 with the uniform body: a message
\* and an errors map that names price.
C21_PriceErrorUniformShape ==
    (/\ resp.op \in {"create", "update", "partial_update", "update_status"}
     /\ resp.exc \in ValidationErrors
     /\ "price" \in resp.errors)
        => /\ resp.code = 400
           /\ resp.body # <<>>
           /\ {"message", "errors"} \subseteq resp.body[1].keys
           /\ "price" \in resp.body[1].errors

\* C22: the notification of an order's deletion, as published and as every
\* subscriber receives or is about to receive it, has the order's id as its
\* only field.
C22_DeletedCarriesOnlyId ==
    /\ \A k \in 1..Len(events) :
          (events[k].kind = "send" /\ events[k].type = "order"
                /\ events[k].action = "deleted")
              => (DOMAIN events[k].data = {"id"} /\ events[k].data.id = events[k].id)
    /\ \A c \in ConnIds :
          /\ \A k \in 1..Len(conns[c].received) :
                (conns[c].received[k].type = "order_update"
                      /\ conns[c].received[k].action = "deleted")
                    => DOMAIN conns[c].received[k].order = {"id"}
          /\ \A k \in 1..Len(conns[c].inbox) :
                (conns[c].inbox[k].type = "order" /\ conns[c].inbox[k].action = "deleted")
                    => DOMAIN conns[c].inbox[k].data = {"id"}

\* a subscriber has received the notification of a deletion
C22_Witness ==
    \E c \in ConnIds :
        \E k \in 1..Len(conns[c].received) :
            /\ conns[c].received[k].type = "order_update"
            /\ conns[c].received[k].action = "deleted"
            /\ conns[c].received[k].order.id \notin DOMAIN orders

C23_HiddenFields == {"price", "customer_phone", "created_by", "delivered_in_shift"}

C23_Hidden ==
    [price : {10, 20}, customer_phone : Phones, created_by : Users,
     delivered_in_shift : {NULL, 1}]

\* the stores that differ from o in hidden fields only
C23_Stores(o) ==
    {[i \in DOMAIN o |->
         [o[i] EXCEPT !.price = h[i].price,
                      !.customer_phone = h[i].customer_phone,
                      !.created_by = h[i].created_by,
                      !.delivered_in_shift = h[i].delivered_in_shift]] :
       h \in [DOMAIN o -> C23_Hidden]}

C30_WorkerChangesStatusOnly ==
    [][(/\ resp'.actor \in Workers
        /\ resp'.op \in {"update", "partial_update", "update_status"})
          => /\ DOMAIN orders' = DOMAIN orders
             /\ \A id \in DOMAIN orders :
                   /\ orders'[id].customer_name = orders[id].customer_name
                   /\ orders'[id].customer_phone = orders[id].customer_phone
                   /\ orders'[id].price = orders[id].price
                   /\ orders'[id].created_by = orders[id].created_by
                   /\ orders'[id].delivered_in_shift = orders[id].delivered_in_shift]_vars

\* the status-only action has just accepted a worker's body that carried
\* another customer name beside the status: the status is written, the name
\* is not
C30_Witness ==
    /\ resp.actor \in Workers
    /\ resp.op = "update_status"
    /\ resp.keys = {"customer_name", "customer_phone", "status"}
    /\ resp.code = 200
    /\ orders[resp.target].customer_name = "a"
    /\ orders[resp.target].status = "DONE_CUTTING"

\* C28: whatever shift operations a manager runs, the generic create of the
\* shift collection among them, no two shifts are active together.
C28_CreateKeepsOneActive ==
    \A a, b \in 1..Len(shifts) :
        (shifts[a].is_active /\ shifts[b].is_active) => a = b

\* C29: an order with a shift reference is DELIVERED, the shift it refers to
\* is closed, and its delivered_at lies between that shift's opened_at and
\* closed_at.
C29_LinkedOrderInsideWindow ==
    \A i \in DOMAIN orders :
        orders[i].delivered_in_shift # NULL =>
            LET sh == shifts[orders[i].delivered_in_shift]
            IN /\ orders[i].status = "DELIVERED"
               /\ ~sh.is_active
               /\ orders[i].delivered_at # NULL
               /\ sh.opened_at <= orders[i].delivered_at
               /\ orders[i].delivered_at <= sh.closed_at

\* C24: no two shifts are active together, also when two open_new requests,
\* or an open_new and a close, run statement by statement beside each other.
C24_OneActiveUnderInterleaving ==
    ~ \E a, b \in ActiveIds(shifts) : a < b

\* C25: the statistics a close stores and the orders it links come from one
\* set of orders: once the link statement of a close has run, the count the
\* close holds is the number of orders it linked and the revenue it holds is
\* the sum of their prices, also when orders are edited while the close runs.
C25_CloseStatsOverOneSet ==
    \A r \in ReqIds :
        (reqs[r].op \in {"open_new", "close"} /\ reqs[r].pc = "save")
            => /\ reqs[r].instance[1].total_orders_delivered
                      = Cardinality(reqs[r].linked)
               /\ reqs[r].instance[1].total_revenue = reqs[r].linked_revenue

\* C26: of two close requests of one shift in flight together, one closes
\* the shift and the other is answered 'Shift already closed': the two are
\* never both answered 200.
C26_OneCloseWins ==
    \A r, q \in ReqIds :
        (/\ r # q
         /\ reqs[r].op = "close" /\ reqs[q].op = "close"
         /\ reqs[r].pc = "done" /\ reqs[q].pc = "done"
         /\ reqs[r].target = reqs[q].target)
            => ~(reqs[r].code = 200 /\ reqs[q].code = 200)

\* C27: whatever a reader finds in the store while a worker's status-only
\* update and a manager's edit of one order run beside each other, each
\* reading the order and then saving it, an order's delivered_at is set
\* exactly when its status is DELIVERED and a DELIVERED order has a price.
C27_ConsistentUnderInterleaving ==
    \A i \in DOMAIN orders :
        /\ (orders[i].delivered_at = NULL) <=> (orders[i].status # "DELIVERED")
        /\ orders[i].status = "DELIVERED" => Truthy(orders[i].price)

\* a worker's status-only update and a manager's edit that read the same
\* stored order have both saved it, and the later save undid the delivery
\* the earlier one had stored
C27_Witness ==
    \E r, q \in ReqIds :
        /\ reqs[r].op = "update_status" /\ reqs[q].op = "partial_update"
        /\ reqs[r].pc = "done" /\ reqs[q].pc = "done"
        /\ reqs[r].code = 200 /\ reqs[q].code = 200
        /\ reqs[r].target = reqs[q].target
        /\ reqs[r].read = reqs[q].read
        /\ reqs[r].data.status = "DELIVERED"
        /\ reqs[r].target \in DOMAIN orders
        /\ orders[reqs[r].target].status # "DELIVERED"
        /\ orders[reqs[r].target].price = 0

\* C31: a request changes the delivered_at of an order only when it moves the
\* order into or out of DELIVERED: an order saved DELIVERED before and after
\* (a manager's edit of its price or customer fields, a status-only update to
\* DELIVERED again) keeps the delivered_at it had.
C31_DeliveredAtOnlyOnTransition ==
    [][\A i \in DOMAIN orders \cap DOMAIN orders' :
          orders'[i].delivered_at # orders[i].delivered_at
              => (orders[i].status = "DELIVERED") # (orders'[i].status = "DELIVERED")]_vars

\* a manager's PATCH of the price alone, which cannot change the status, has
\* just been accepted for an order that is DELIVERED, and the order still has
\* the delivered_at of the first tick
C31_Witness ==
    /\ resp.op = "partial_update"
    /\ resp.code = 200
    /\ resp.keys = {"price"}
    /\ resp.target \in DOMAIN orders
    /\ orders[resp.target].status = "DELIVERED"
    /\ orders[resp.target].price = 20
    /\ orders[resp.target].delivered_at = 1
    /\ now = MaxTime

\* C32: the delivered-orders listing of a closed shift is the snapshot of its
\* close: the orders it returns are the orders whose shift reference is that
\* shift, and there are total_orders_delivered of them, whatever was done to
\* those orders after the close.
C32_ListingIsSnapshot ==
    (/\ resp.op = "delivered_orders"
     /\ resp.code = 200
     /\ ~shifts[resp.target].is_active)
        => LET listed == {row.id : row \in resp.body[1]}
           IN /\ listed = {i \in DOMAIN orders :
                              orders[i].delivered_in_shift = resp.target}
              /\ Cardinality(listed) = shifts[resp.target].total_orders_delivered

=============================================================================
